---- MODULE Spec2Model ----
(***************************************************************************)
(* pysled: the Python classes SledDb and SledTree (src/src/lib.rs) over    *)
(* the storage engine they wrap.                                           *)
(*                                                                         *)
(* The classes are pyo3 #[pymethods]: a method runs with the interpreter   *)
(* lock (GIL) held from its first statement to its return, since no method *)
(* of lib.rs releases it.  The variable gil is that lock.  Every method    *)
(* except all() is one engine call and one action; all() is the loop of    *)
(* lib.rs:48-57 and runs as all_begin, all_next*, all_end.                  *)
(*                                                                         *)
(* The engine behind self.inner (ordered index, registry, page store) is   *)
(* not part of lib.rs; the operators named Tree_*, Db_* and the page-store *)
(* operators follow the engine's specification.                            *)
(***************************************************************************)
EXTENDS Integers, Sequences, FiniteSets, TLC

\* ---------------------------------------------------------------- bounds
NumKeys == 2
NumVals == 2
MaxEntries == 2
MaxLog == 3
MaxHist == 3

\* ---------------------------------------------------------------- values
\* Option<T>: a sequence of length 0 (None) or 1 (Some).
None == <<>>
Some(x) == <<x>>
IsSome(o) == Len(o) = 1
Unwrap(o) == o[1]

\* Byte strings.  Keys are listed out of order so that the ascending order
\* of a scan is not the order of this list.
KeyList == << <<1>>, <<0, 1>>, <<0>>, <<1, 0>> >>
Keys == {KeyList[i] : i \in 1..NumKeys}
ValOf(i) == IF i = 1 THEN <<>> ELSE <<i - 1>>
Vals == {ValOf(i) : i \in 1..NumVals}
OptVals == {None} \cup {Some(v) : v \in Vals}

DEFAULT_TREE_ID == "__sled__default"
TreeNames == {"a", "b"}
Names == {DEFAULT_TREE_ID} \cup TreeNames

Threads == {"A", "B"}
Main == "A"
NoThread == "-"

\* Engine trees (instances).  Instance 0 is the default tree, which the
\* Database handle dereferences to; 1..MaxInst are named trees.
DbInst == 0
NoInst == -1
\* The Python program keeps SledTree objects in two variables.
Slots == {1, 2}
MaxInst == Cardinality(TreeNames) + Cardinality(Slots)
Insts == 0..MaxInst
EmptyData == [k \in Keys |-> None]

\* ---------------------------------------------------------------- results
\* sled::Result<T> of the engine and PyResult<T> of the binding.
Ok(x) == [tag |-> "Ok", val |-> x]
Err(e) == [tag |-> "Err", val |-> e]
PyOk(x) == [tag |-> "PyOk", val |-> x]
PyValueError(msg) == [tag |-> "PyValueError", val |-> msg]
Idle == [tag |-> "Idle", val |-> None]

\* IVec::to_vec / Vec::from: a copy of the bytes, element by element.
to_vec(iv) == [i \in 1..Len(iv) |-> iv[i]]
\* Option::map(|i| i.to_vec())
map_to_vec(o) == IF IsSome(o) THEN Some(to_vec(Unwrap(o))) ELSE None

\* convert_to_pyresult: Ok passes through, Err(e) becomes PyValueError(e.to_string()).
convert_to_pyresult(inp) ==
  IF inp.tag = "Ok" THEN PyOk(inp.val) ELSE PyValueError(inp.val)

\* PyResult::map(f) for the conversions of the binding.
PyMapOpt(r) == IF r.tag = "PyOk" THEN PyOk(map_to_vec(r.val)) ELSE r
PyMapUnit(r) == IF r.tag = "PyOk" THEN PyOk("unit") ELSE r

\* The class CompareAndSwapError handed to Python.
CompareAndSwapError(cur, prop) == [current |-> cur, proposed |-> prop]

VARIABLES
  tenants,   \* registry: tree name -> instance (NoInst when the name is unused)
  trees,     \* instance -> [name, root, data]
  handles,   \* SledTree objects held by the Python program: slot -> instance
  opened,    \* slot -> the name that was passed to open_tree for it
  gil,       \* the thread inside a #[pymethods] call, or NoThread
  scan,      \* per thread: the iterator and the Vec `out` of a running all()
  call,      \* per thread: the last method called and its arguments
  ret,       \* per thread: what that call returned
  disk,      \* page store: the content that is on stable storage
  wal,       \* page store: mutation records applied but not yet stable
  applied,   \* history: every mutation record applied since the store was created
  synced,    \* history: length of applied at the last flush that returned Ok
  hist       \* history: what a specification keeps of the calls that took effect

durVars == <<disk, wal, applied, synced>>
vars == <<tenants, trees, handles, opened, gil, scan, call, ret, disk, wal, applied, synced, hist>>

\* ---------------------------------------------------------------- engine
\* Lexicographic order over raw key bytes.
LexLess(a, b) ==
  \E i \in 1..Len(b) :
    /\ \A j \in 1..(i - 1) : j <= Len(a) /\ a[j] = b[j]
    /\ (i > Len(a) \/ a[i] < b[i])

FreeTree == [name |-> "", root |-> "free", data |-> EmptyData]
NewTree(n) == [name |-> n, root |-> "live", data |-> EmptyData]
TreeDroppedError == "TreeDroppedError"
InvalidOperationError == "InvalidOperationError"

Live(tr) == tr.root = "live"
Present(tr) == {k \in Keys : IsSome(tr.data[k])}
TotalEntries(trs) == Cardinality({p \in Insts \X Keys : IsSome(trs[p[1]].data[p[2]])})

\* Each engine operation yields its sled::Result in res and the tree's
\* content afterwards in data.
Tree_get(tr, k) ==
  IF Live(tr) THEN Ok(tr.data[k]) ELSE Err(TreeDroppedError)

Tree_contains_key(tr, k) ==
  IF Live(tr) THEN Ok(IsSome(tr.data[k])) ELSE Err(TreeDroppedError)

Tree_insert(tr, k, v) ==
  IF Live(tr)
  THEN [res |-> Ok(tr.data[k]), data |-> [tr.data EXCEPT ![k] = Some(v)]]
  ELSE [res |-> Err(TreeDroppedError), data |-> tr.data]

Tree_remove(tr, k) ==
  IF Live(tr)
  THEN [res |-> Ok(tr.data[k]), data |-> [tr.data EXCEPT ![k] = None]]
  ELSE [res |-> Err(TreeDroppedError), data |-> tr.data]

Tree_clear(tr) ==
  IF Live(tr)
  THEN [res |-> Ok("unit"), data |-> EmptyData]
  ELSE [res |-> Err(TreeDroppedError), data |-> tr.data]

\* The inner Result is Ok(()) when the swap was applied and
\* Err(CompareAndSwapError {current, proposed}) when it was not.
Tree_compare_and_swap(tr, k, old, new) ==
  IF ~Live(tr) THEN [res |-> Err(TreeDroppedError), data |-> tr.data]
  ELSE IF tr.data[k] = old
  THEN [res |-> Ok(Ok("unit")), data |-> [tr.data EXCEPT ![k] = new]]
  ELSE [res |-> Ok(Err([current |-> tr.data[k], proposed |-> new])), data |-> tr.data]

\* Iter::next of a live iterator that last yielded key pos: the entry with
\* the least key above pos in the tree as it is now.
Tree_iter_next(tr, pos) ==
  IF ~Live(tr) THEN Some(Err(TreeDroppedError))
  ELSE LET rest == {k \in Present(tr) : pos = None \/ LexLess(Unwrap(pos), k)}
       IN IF rest = {} THEN None
          ELSE LET k == CHOOSE x \in rest : \A y \in rest \ {x} : LexLess(x, y)
               IN Some(Ok(<<k, Unwrap(tr.data[k])>>))

\* len and is_empty return usize and bool, not a Result: on a dropped tree
\* they can report no error, and which value comes back is not fixed.
Tree_len(tr) ==
  IF Live(tr) THEN {Cardinality(Present(tr))} ELSE 0..NumKeys

Tree_is_empty(tr) ==
  IF Live(tr) THEN {Present(tr) = {}} ELSE BOOLEAN

\* The digest: every byte of the input is folded into the running value,
\* in the order in which it is fed.  The value is kept below DigestMod,
\* which is inside the width of the u32 that is returned.
DigestMod == 65521
RECURSIVE Hasher_update(_, _)
Hasher_update(h, bytes) ==
  IF bytes = <<>> THEN h
  ELSE Hasher_update((h * 31 + Head(bytes) + 1) % DigestMod, Tail(bytes))

\* The digest of a live tree continued from h: the iterator is run from
\* pos to its end and each key, then its value, is fed to the hasher.
RECURSIVE checksum_from(_, _, _)
checksum_from(tr, pos, h) ==
  LET e == Tree_iter_next(tr, pos)
  IN IF e = None THEN h
     ELSE LET kv == Unwrap(e).val
          IN checksum_from(tr, Some(kv[1]), Hasher_update(Hasher_update(h, kv[1]), kv[2]))

\* Tree::checksum: the digest over the current entries of the tree.
Tree_checksum(tr) ==
  IF Live(tr) THEN Ok(checksum_from(tr, None, 0)) ELSE Err(TreeDroppedError)

\* The bytes of a tree name.
NameBytes(n) ==
  IF n = "a" THEN <<97>>
  ELSE IF n = "b" THEN <<98>>
  ELSE <<95, 95, 115, 108, 101, 100, 95, 95, 100, 101, 102, 97, 117, 108, 116>>

\* Db::checksum: the digest over every registered tree, in the order of
\* the names: the name, then the entries of the tree.
RECURSIVE Db_checksum_from(_, _, _, _)
Db_checksum_from(tns, trs, names, h) ==
  IF names = <<>> THEN h
  ELSE IF tns[Head(names)] = NoInst THEN Db_checksum_from(tns, trs, Tail(names), h)
  ELSE Db_checksum_from(tns, trs, Tail(names),
         checksum_from(trs[tns[Head(names)]], None, Hasher_update(h, NameBytes(Head(names)))))

Db_checksum(tns, trs) == Ok(Db_checksum_from(tns, trs, <<DEFAULT_TREE_ID, "a", "b">>, 0))

\* ---------------------------------------------------------------- binding
\* self is 0 for the SledDb object and a slot of handles for a SledTree.
inner(self) == IF self = 0 THEN DbInst ELSE handles[self]
Bound(self) == IF self = 0 THEN TRUE ELSE handles[self] # NoInst
Selfs == {0} \cup Slots

MkCall(op, self, name, key, old, val) ==
  [op |-> op, self |-> self, name |-> name, key |-> key, old |-> old, val |-> val]
NoCall == MkCall("none", 0, "", <<>>, None, None)

\* Returns for a method that runs without waiting for the GIL.
Returns_unlocked(t, c, r, i, data) ==
  /\ trees' = [trees EXCEPT ![i].data = data]
  /\ call' = [call EXCEPT ![t] = c]
  /\ ret' = [ret EXCEPT ![t] = r]
  /\ UNCHANGED <<tenants, handles, opened, gil, scan>>

\* A method that is a single engine call: it needs the GIL, changes the
\* content of its own tree and returns.
Returns(t, c, r, i, data) ==
  /\ gil = NoThread
  /\ trees' = [trees EXCEPT ![i].data = data]
  /\ call' = [call EXCEPT ![t] = c]
  /\ ret' = [ret EXCEPT ![t] = r]
  /\ UNCHANGED <<tenants, handles, opened, gil, scan>>

\* Insertion of a new key is explored while the store holds fewer than
\* MaxEntries entries.
Room(tr, k) ==
  IF IsSome(tr.data[k]) THEN TRUE
  ELSE IF ~Live(tr) THEN TRUE
  ELSE TotalEntries(trees) < MaxEntries

\* insert returning the value it was given instead of the previous one.
insert_echo(t, self, key, value) ==
  /\ Bound(self)
  /\ Room(trees[inner(self)], key)
  /\ LET e == Tree_insert(trees[inner(self)], key, value)
     IN Returns(t, MkCall("insert", self, "", key, None, Some(value)),
                PyMapOpt(convert_to_pyresult(Ok(Some(value)))), inner(self), e.data)

insert(t, self, key, value) ==
  /\ Bound(self)
  /\ Room(trees[inner(self)], key)
  /\ LET e == Tree_insert(trees[inner(self)], key, value)
     IN Returns(t, MkCall("insert", self, "", key, None, Some(value)),
                PyMapOpt(convert_to_pyresult(e.res)), inner(self), e.data)

\* get that never finds the key.
get_absent(t, self, key) ==
  /\ Bound(self)
  /\ Returns(t, MkCall("get", self, "", key, None, None),
             PyMapOpt(convert_to_pyresult(Ok(None))),
             inner(self), trees[inner(self)].data)

get(t, self, key) ==
  /\ Bound(self)
  /\ Returns(t, MkCall("get", self, "", key, None, None),
             PyMapOpt(convert_to_pyresult(Tree_get(trees[inner(self)], key))),
             inner(self), trees[inner(self)].data)

\* remove raising an error when the engine reports that the key was absent.
remove_strict(t, self, key) ==
  /\ Bound(self)
  /\ LET e == Tree_remove(trees[inner(self)], key)
         r == PyMapOpt(convert_to_pyresult(e.res))
     IN Returns(t, MkCall("remove", self, "", key, None, None),
                IF r = PyOk(None) THEN PyValueError("KeyError") ELSE r,
                inner(self), e.data)

remove(t, self, key) ==
  /\ Bound(self)
  /\ LET e == Tree_remove(trees[inner(self)], key)
     IN Returns(t, MkCall("remove", self, "", key, None, None),
                PyMapOpt(convert_to_pyresult(e.res)), inner(self), e.data)

\* clear on the SledDb object emptying every tree of the Database.
clear_all(t, self) ==
  /\ Bound(self)
  /\ gil = NoThread
  /\ LET e == Tree_clear(trees[inner(self)])
     IN /\ trees' = [i \in Insts |->
                      IF i = inner(self) THEN [trees[i] EXCEPT !.data = e.data]
                      ELSE IF self = 0 THEN [trees[i] EXCEPT !.data = EmptyData]
                      ELSE trees[i]]
        /\ ret' = [ret EXCEPT ![t] = convert_to_pyresult(e.res)]
  /\ call' = [call EXCEPT ![t] = MkCall("clear", self, "", <<>>, None, None)]
  /\ UNCHANGED <<tenants, handles, opened, gil, scan>>

clear(t, self) ==
  /\ Bound(self)
  /\ LET e == Tree_clear(trees[inner(self)])
     IN Returns(t, MkCall("clear", self, "", <<>>, None, None),
                convert_to_pyresult(e.res), inner(self), e.data)

\* cas_descriptor with the two fields of the descriptor exchanged.
cas_descriptor_swapped(r) ==
  IF r.tag # "PyOk" THEN r
  ELSE IF r.val.tag = "Ok" THEN PyOk(None)
  ELSE PyOk(Some(CompareAndSwapError(map_to_vec(r.val.val.proposed),
                                     map_to_vec(r.val.val.current))))

\* .map(|e| e.map_err(|i| CompareAndSwapError {..}).err()): Ok(()) becomes
\* None, a conflict becomes Some(descriptor) with both fields copied.
cas_descriptor(r) ==
  IF r.tag # "PyOk" THEN r
  ELSE IF r.val.tag = "Ok" THEN PyOk(None)
  ELSE PyOk(Some(CompareAndSwapError(map_to_vec(r.val.val.current),
                                     map_to_vec(r.val.val.proposed))))

\* compare_and_swamp handing old and new to the engine in exchanged places.
compare_and_swamp_exchanged(t, self, key, old, new) ==
  /\ Bound(self)
  /\ IF old = None THEN TRUE ELSE Room(trees[inner(self)], key)
  /\ LET e == Tree_compare_and_swap(trees[inner(self)], key, new, old)
     IN Returns(t, MkCall("compare_and_swamp", self, "", key, old, new),
                cas_descriptor(convert_to_pyresult(e.res)), inner(self), e.data)

compare_and_swamp(t, self, key, old, new) ==
  /\ Bound(self)
  /\ IF new = None THEN TRUE ELSE Room(trees[inner(self)], key)
  /\ LET e == Tree_compare_and_swap(trees[inner(self)], key, old, new)
     IN Returns(t, MkCall("compare_and_swamp", self, "", key, old, new),
                cas_descriptor(convert_to_pyresult(e.res)), inner(self), e.data)

contains_key(t, self, key) ==
  /\ Bound(self)
  /\ Returns(t, MkCall("contains_key", self, "", key, None, None),
             convert_to_pyresult(Tree_contains_key(trees[inner(self)], key)),
             inner(self), trees[inner(self)].data)

\* __contains__ testing the value as Python tests a bytes object: an
\* entry with an empty value counts as absent.
contains_truthy(t, self, key) ==
  /\ Bound(self)
  /\ LET r == convert_to_pyresult(Tree_get(trees[inner(self)], key))
     IN Returns(t, MkCall("__contains__", self, "", key, None, None),
                IF r.tag = "PyOk" THEN PyOk(IsSome(r.val) /\ r.val # Some(<<>>)) ELSE r,
                inner(self), trees[inner(self)].data)

\* __contains__: the same engine call as contains_key.
__contains__(t, self, key) ==
  /\ Bound(self)
  /\ Returns(t, MkCall("__contains__", self, "", key, None, None),
             convert_to_pyresult(Tree_contains_key(trees[inner(self)], key)),
             inner(self), trees[inner(self)].data)

\* __getitem__ raising KeyError for an absent key, as a dict does.
getitem_strict(t, self, key) ==
  /\ Bound(self)
  /\ LET r == PyMapOpt(convert_to_pyresult(Tree_get(trees[inner(self)], key)))
     IN Returns(t, MkCall("__getitem__", self, "", key, None, None),
                IF r = PyOk(None) THEN PyValueError("KeyError") ELSE r,
                inner(self), trees[inner(self)].data)

\* __getitem__: self.get(key).
__getitem__(t, self, key) ==
  /\ Bound(self)
  /\ Returns(t, MkCall("__getitem__", self, "", key, None, None),
             PyMapOpt(convert_to_pyresult(Tree_get(trees[inner(self)], key))),
             inner(self), trees[inner(self)].data)

\* __setitem__: self.insert(key, value).map(|_| ()).
__setitem__(t, self, key, value) ==
  /\ Bound(self)
  /\ Room(trees[inner(self)], key)
  /\ LET e == Tree_insert(trees[inner(self)], key, value)
     IN Returns(t, MkCall("__setitem__", self, "", key, None, Some(value)),
                PyMapUnit(PyMapOpt(convert_to_pyresult(e.res))), inner(self), e.data)

\* __delitem__: self.remove(key).map(|_| ()).
__delitem__(t, self, key) ==
  /\ Bound(self)
  /\ LET e == Tree_remove(trees[inner(self)], key)
     IN Returns(t, MkCall("__delitem__", self, "", key, None, None),
                PyMapUnit(PyMapOpt(convert_to_pyresult(e.res))), inner(self), e.data)

\* len counting the entries of every tree of the Database.
len_total(t, self) ==
  /\ Bound(self)
  /\ Returns(t, MkCall("len", self, "", <<>>, None, None), PyOk(TotalEntries(trees)),
             inner(self), trees[inner(self)].data)

len(t, self) ==
  /\ Bound(self)
  /\ \E n \in Tree_len(trees[inner(self)]) :
       Returns(t, MkCall("len", self, "", <<>>, None, None), PyOk(n),
               inner(self), trees[inner(self)].data)

is_empty(t, self) ==
  /\ Bound(self)
  /\ \E b \in Tree_is_empty(trees[inner(self)]) :
       Returns(t, MkCall("is_empty", self, "", <<>>, None, None), PyOk(b),
               inner(self), trees[inner(self)].data)

\* checksum on a SledTree taking the digest of the whole Database.
checksum_whole(t, self) ==
  /\ Bound(self)
  /\ Returns(t, MkCall("checksum", self, "", <<>>, None, None),
             convert_to_pyresult(Db_checksum(tenants, trees)),
             inner(self), trees[inner(self)].data)

\* checksum: on the SledDb object inner is the Db, whose checksum covers
\* every tree; on a SledTree it is the Tree's.
checksum(t, self) ==
  /\ Bound(self)
  /\ Returns(t, MkCall("checksum", self, "", <<>>, None, None),
             convert_to_pyresult(IF self = 0 THEN Db_checksum(tenants, trees)
                                 ELSE Tree_checksum(trees[inner(self)])),
             inner(self), trees[inner(self)].data)

\* The pairs (old, new) with which the single-thread specifications call
\* compare_and_swamp: delete a key if it holds old, set a key if it is
\* absent.  SpecCas calls it with every pair.
CasPairs == {<<old, None>> : old \in OptVals} \cup {<<None, new>> : new \in OptVals}

\* all(): `let iter = self.inner.iter()` and the empty Vec.
all_begin(t, self) ==
  /\ Bound(self)
  /\ gil = NoThread
  /\ gil' = t
  /\ scan' = [scan EXCEPT ![t] = [inst |-> inner(self), pos |-> None, out |-> <<>>]]
  /\ call' = [call EXCEPT ![t] = MkCall("all", self, "", <<>>, None, None)]
  /\ ret' = [ret EXCEPT ![t] = Idle]
  /\ UNCHANGED <<tenants, trees, handles, opened>>

\* all() putting each pair at the front of out instead of at its end.
all_next_front(t) ==
  /\ gil = t
  /\ LET e == Tree_iter_next(trees[scan[t].inst], scan[t].pos)
     IN /\ IsSome(e)
        /\ convert_to_pyresult(Unwrap(e)).tag = "PyOk"
        /\ LET kv == convert_to_pyresult(Unwrap(e)).val
           IN scan' = [scan EXCEPT ![t].pos = Some(kv[1]),
                                    ![t].out = <<<<to_vec(kv[1]), to_vec(kv[2])>>>> \o @]
  /\ UNCHANGED <<tenants, trees, handles, opened, gil, call, ret>>

\* One turn of `for e in iter`: convert_to_pyresult(e)? then out.push.
all_next(t) ==
  /\ gil = t
  /\ LET e == Tree_iter_next(trees[scan[t].inst], scan[t].pos)
     IN /\ IsSome(e)
        /\ convert_to_pyresult(Unwrap(e)).tag = "PyOk"
        /\ LET kv == convert_to_pyresult(Unwrap(e)).val
           IN scan' = [scan EXCEPT ![t].pos = Some(kv[1]),
                                    ![t].out = Append(@, <<to_vec(kv[1]), to_vec(kv[2])>>)]
  /\ UNCHANGED <<tenants, trees, handles, opened, gil, call, ret>>

NoScan == [inst |-> NoInst, pos |-> None, out |-> <<>>]

\* The loop ends: the iterator is exhausted (Ok(out)) or `?` returns the error.
all_end(t) ==
  /\ gil = t
  /\ LET e == Tree_iter_next(trees[scan[t].inst], scan[t].pos)
     IN /\ IF e = None THEN TRUE ELSE convert_to_pyresult(Unwrap(e)).tag # "PyOk"
        /\ ret' = [ret EXCEPT ![t] = IF e = None THEN PyOk(scan[t].out)
                                     ELSE convert_to_pyresult(Unwrap(e))]
  /\ gil' = NoThread
  /\ scan' = [scan EXCEPT ![t] = NoScan]
  /\ UNCHANGED <<tenants, trees, handles, opened, call>>

\* ---------------------------------------------------------------- registry
\* An engine tree that was dropped and that no SledTree object refers to
\* any more is released.
Collect(trs, hs) ==
  [i \in Insts |->
     IF i # DbInst /\ ~Live(trs[i]) /\ \A h \in Slots : hs[h] # i
     THEN FreeTree ELSE trs[i]]

\* Db::open_tree: the tree registered under name, created empty when the
\* name is not registered.  slot is the variable of the Python program that
\* receives the SledTree.
Db_open_tree(name, slot) ==
  IF tenants[name] # NoInst
  THEN [res |-> Ok(tenants[name]), tenants |-> tenants, trees |-> trees]
  ELSE LET free == {i \in Insts \ {DbInst} :
                      ~Live(trees[i]) /\ \A h \in Slots \ {slot} : handles[h] # i}
           i == CHOOSE x \in free : \A y \in free : x <= y
       IN [res |-> Ok(i),
           tenants |-> [tenants EXCEPT ![name] = i],
           trees |-> [trees EXCEPT ![i] = NewTree(name)]]

\* open_tree asking the engine for the default tree whatever name it is given.
open_tree_unnamed(t, name, slot) ==
  /\ gil = NoThread
  /\ LET e == Db_open_tree(DEFAULT_TREE_ID, slot)
         r == convert_to_pyresult(e.res)
         hs == [handles EXCEPT ![slot] = r.val]
     IN /\ tenants' = e.tenants
        /\ handles' = hs
        /\ trees' = Collect(e.trees, hs)
        /\ opened' = [opened EXCEPT ![slot] = name]
        /\ ret' = [ret EXCEPT ![t] = PyOk(slot)]
  /\ call' = [call EXCEPT ![t] = MkCall("open_tree", slot, name, <<>>, None, None)]
  /\ UNCHANGED <<gil, scan>>

\* open_tree handing out a tree of its own, with a copy of the entries,
\* for a name that is already registered.
open_tree_copy(t, name, slot) ==
  /\ gil = NoThread
  /\ LET e == Db_open_tree(name, slot)
         free == {i \in Insts \ {DbInst} :
                    ~Live(e.trees[i]) /\ \A h \in Slots \ {slot} : handles[h] # i}
         i == IF free = {} THEN e.res.val ELSE CHOOSE x \in free : \A y \in free : x <= y
         hs == [handles EXCEPT ![slot] = i]
     IN /\ tenants' = e.tenants
        /\ handles' = hs
        /\ trees' = Collect([e.trees EXCEPT ![i] = e.trees[e.res.val]], hs)
        /\ opened' = [opened EXCEPT ![slot] = name]
        /\ ret' = [ret EXCEPT ![t] = PyOk(slot)]
  /\ call' = [call EXCEPT ![t] = MkCall("open_tree", slot, name, <<>>, None, None)]
  /\ UNCHANGED <<gil, scan>>

open_tree(t, name, slot) ==
  /\ gil = NoThread
  /\ LET e == Db_open_tree(name, slot)
         r == convert_to_pyresult(e.res)
         hs == IF r.tag = "PyOk" THEN [handles EXCEPT ![slot] = r.val] ELSE handles
     IN /\ tenants' = e.tenants
        /\ handles' = hs
        /\ trees' = Collect(e.trees, hs)
        /\ opened' = IF r.tag = "PyOk" THEN [opened EXCEPT ![slot] = name] ELSE opened
        /\ ret' = [ret EXCEPT ![t] = IF r.tag = "PyOk" THEN PyOk(slot) ELSE r]
  /\ call' = [call EXCEPT ![t] = MkCall("open_tree", slot, name, <<>>, None, None)]
  /\ UNCHANGED <<gil, scan>>

\* Db::drop_tree: Ok(true) when the name was registered and the tree is
\* removed, Ok(false) when it was not; the default tree is refused.
Db_drop_tree(name) ==
  IF name = DEFAULT_TREE_ID
  THEN [res |-> Err(InvalidOperationError), tenants |-> tenants, trees |-> trees]
  ELSE IF tenants[name] = NoInst
  THEN [res |-> Ok(FALSE), tenants |-> tenants, trees |-> trees]
  ELSE [res |-> Ok(TRUE),
        tenants |-> [tenants EXCEPT ![name] = NoInst],
        trees |-> [trees EXCEPT ![tenants[name]] =
                     [name |-> name, root |-> "dropped", data |-> EmptyData]]]

\* drop_tree reporting true whenever the engine reported no error.
drop_tree_true(t, name) ==
  /\ gil = NoThread
  /\ LET e == Db_drop_tree(name)
     IN /\ tenants' = e.tenants
        /\ trees' = Collect(e.trees, handles)
        /\ ret' = [ret EXCEPT ![t] = IF e.res.tag = "Ok" THEN PyOk(TRUE)
                                     ELSE convert_to_pyresult(e.res)]
  /\ call' = [call EXCEPT ![t] = MkCall("drop_tree", 0, name, <<>>, None, None)]
  /\ UNCHANGED <<handles, opened, gil, scan>>

\* drop_tree answering from the registry without asking the engine to
\* remove the tree.
drop_tree_kept(t, name) ==
  /\ gil = NoThread
  /\ ret' = [ret EXCEPT ![t] = IF name = DEFAULT_TREE_ID
                                THEN convert_to_pyresult(Err(InvalidOperationError))
                                ELSE PyOk(tenants[name] # NoInst)]
  /\ call' = [call EXCEPT ![t] = MkCall("drop_tree", 0, name, <<>>, None, None)]
  /\ UNCHANGED <<tenants, trees, handles, opened, gil, scan>>

drop_tree(t, name) ==
  /\ gil = NoThread
  /\ LET e == Db_drop_tree(name)
     IN /\ tenants' = e.tenants
        /\ trees' = Collect(e.trees, handles)
        /\ ret' = [ret EXCEPT ![t] = convert_to_pyresult(e.res)]
  /\ call' = [call EXCEPT ![t] = MkCall("drop_tree", 0, name, <<>>, None, None)]
  /\ UNCHANGED <<handles, opened, gil, scan>>

\* ---------------------------------------------------------------- page store
\* The content of a store: for every name the entries of its tree, or None
\* when no tree of that name exists.
FreshContent == [n \in Names |-> IF n = DEFAULT_TREE_ID THEN Some(EmptyData) ELSE None]
MemContent ==
  [n \in Names |-> IF tenants[n] = NoInst THEN None ELSE Some(trees[tenants[n]].data)]

\* Mutation records: put (val = None is a tombstone), clear, create, drop.
PutRec(n, k, v) == [op |-> "put", name |-> n, key |-> k, val |-> v]
TreeRec(op, n) == [op |-> op, name |-> n, key |-> <<>>, val |-> None]

ApplyRec(c, r) ==
  IF r.op = "put" THEN [c EXCEPT ![r.name] = Some([Unwrap(@) EXCEPT ![r.key] = r.val])]
  ELSE IF r.op = "drop" THEN [c EXCEPT ![r.name] = None]
  ELSE [c EXCEPT ![r.name] = Some(EmptyData)]

RECURSIVE ApplyAll(_, _)
ApplyAll(c, recs) ==
  IF recs = <<>> THEN c ELSE ApplyAll(ApplyRec(c, Head(recs)), Tail(recs))

\* The records a call has appended to the log: name is the tree it acted
\* on and created tells whether open_tree had to create it.
Records(c, r, name, created) ==
  IF r.tag # "PyOk" THEN <<>>
  ELSE IF c.op = "insert" THEN <<PutRec(name, c.key, c.val)>>
  ELSE IF c.op = "remove" /\ r.val # None THEN <<PutRec(name, c.key, None)>>
  ELSE IF c.op = "compare_and_swamp" /\ r.val = None /\ c.old # c.val
       THEN <<PutRec(name, c.key, c.val)>>
  ELSE IF c.op = "clear" THEN <<TreeRec("clear", name)>>
  ELSE IF c.op = "open_tree" /\ created THEN <<TreeRec("create", c.name)>>
  ELSE IF c.op = "drop_tree" /\ r.val = TRUE THEN <<TreeRec("drop", c.name)>>
  ELSE <<>>

\* write(): the call of thread t that has just run is appended to the log.
Logged(t) ==
  LET c == call'[t]
      recs == Records(c, ret'[t],
                      IF c.op \in {"open_tree", "drop_tree"} THEN c.name
                      ELSE trees[inner(c.self)].name,
                      IF c.op = "open_tree" THEN tenants[c.name] = NoInst ELSE FALSE)
  IN /\ wal' = wal \o recs
     /\ applied' = applied \o recs
     /\ UNCHANGED <<disk, synced>>

FlushError == "FlushError"

\* Db::flush: every logged record reaches stable storage and the number of
\* bytes written is returned, or the barrier fails and stable storage is
\* as it was.
Db_flush(ok) ==
  IF ok THEN [res |-> Ok(Len(wal)), disk |-> ApplyAll(disk, wal), wal |-> <<>>]
  ELSE [res |-> Err(FlushError), disk |-> disk, wal |-> wal]

\* flush that reports success without reaching the engine.
flush_skipped(t, ok) ==
  /\ gil = NoThread
  /\ ret' = [ret EXCEPT ![t] = PyOk(0)]
  /\ call' = [call EXCEPT ![t] = MkCall("flush", 0, "", <<>>, None, None)]
  /\ UNCHANGED <<disk, wal, tenants, trees, handles, opened, gil, scan>>

\* flush replacing an error of the engine by a count of 0 bytes.
flush_unchecked(t, ok) ==
  /\ gil = NoThread
  /\ LET e == Db_flush(ok)
     IN /\ disk' = e.disk
        /\ wal' = e.wal
        /\ ret' = [ret EXCEPT ![t] = IF e.res.tag = "Ok" THEN PyOk(e.res.val) ELSE PyOk(0)]
  /\ call' = [call EXCEPT ![t] = MkCall("flush", 0, "", <<>>, None, None)]
  /\ UNCHANGED <<tenants, trees, handles, opened, gil, scan>>

flush(t, ok) ==
  /\ gil = NoThread
  /\ LET e == Db_flush(ok)
     IN /\ disk' = e.disk
        /\ wal' = e.wal
        /\ ret' = [ret EXCEPT ![t] = convert_to_pyresult(e.res)]
  /\ call' = [call EXCEPT ![t] = MkCall("flush", 0, "", <<>>, None, None)]
  /\ UNCHANGED <<tenants, trees, handles, opened, gil, scan>>

\* sled::open on a location: the registry and the trees of the stable
\* content c; the tree "a" becomes instance 1, "b" instance 2.
NameList == <<DEFAULT_TREE_ID, "a", "b">>
Db_open(c) ==
  [res |-> Ok("Db"),
   tenants |-> [n \in Names |->
                  IF c[n] = None THEN NoInst
                  ELSE CHOOSE i \in 0..2 : NameList[i + 1] = n],
   trees |-> [i \in Insts |->
                IF i > 2 THEN FreeTree
                ELSE IF c[NameList[i + 1]] = None THEN FreeTree
                ELSE [NewTree(NameList[i + 1]) EXCEPT !.data = Unwrap(c[NameList[i + 1]])]]]

\* SledDb::new opening a fresh location instead of the one named by path.
SledDb_new_elsewhere(t) ==
  /\ gil = NoThread
  /\ LET e == Db_open(FreshContent)
     IN /\ tenants' = e.tenants
        /\ trees' = e.trees
        /\ ret' = [u \in Threads |-> IF u = t THEN PyOk("SledDb") ELSE Idle]
  /\ handles' = [h \in Slots |-> NoInst]
  /\ opened' = [h \in Slots |-> ""]
  /\ call' = [u \in Threads |->
                IF u = t THEN MkCall("new", 0, "", <<>>, None, None) ELSE NoCall]
  /\ wal' = <<>>
  /\ UNCHANGED <<disk, gil, scan>>

\* SledDb::new in a new process, after the previous one has ended (closed
\* or crashed): what was logged but not stable is gone, and the objects
\* of the previous process with it.
SledDb_new(t) ==
  /\ gil = NoThread
  /\ LET e == Db_open(disk)
         r == convert_to_pyresult(e.res)
     IN /\ tenants' = e.tenants
        /\ trees' = e.trees
        /\ ret' = [u \in Threads |->
                    IF u # t THEN Idle
                    ELSE IF r.tag = "PyOk" THEN PyOk("SledDb") ELSE r]
  /\ handles' = [h \in Slots |-> NoInst]
  /\ opened' = [h \in Slots |-> ""]
  /\ call' = [u \in Threads |->
                IF u = t THEN MkCall("new", 0, "", <<>>, None, None) ELSE NoCall]
  /\ wal' = <<>>
  /\ UNCHANGED <<disk, gil, scan>>

\* The page store writes the oldest logged record to stable storage on its
\* own, before any flush is asked for.
stabilize ==
  /\ wal # <<>>
  /\ disk' = ApplyRec(disk, Head(wal))
  /\ wal' = Tail(wal)
  /\ UNCHANGED <<tenants, trees, handles, opened, gil, scan, call, ret>>

\* ---------------------------------------------------------------- Spec
\* One Python thread using the Database and its trees.
InitMem ==
  /\ tenants = [n \in Names |-> IF n = DEFAULT_TREE_ID THEN DbInst ELSE NoInst]
  /\ trees = [i \in Insts |-> IF i = DbInst THEN NewTree(DEFAULT_TREE_ID) ELSE FreeTree]
  /\ handles = [h \in Slots |-> NoInst]
  /\ opened = [h \in Slots |-> ""]
  /\ gil = NoThread
  /\ scan = [t \in Threads |-> NoScan]
  /\ call = [t \in Threads |-> NoCall]
  /\ ret = [t \in Threads |-> Idle]

InitDur ==
  /\ disk = MemContent
  /\ wal = <<>>
  /\ applied = <<>>
  /\ synced = 0

Init == InitMem /\ InitDur /\ hist = <<>>

\* The thread works on the Database object and on one SledTree variable,
\* which it binds to the default tree or to the tree "a".
ApiSelfs == {0, 1}
ApiNames == {DEFAULT_TREE_ID, "a"}

\* The page-store image and the histories are followed in the
\* specifications that crash or compare histories, not here.
Untracked == UNCHANGED <<disk, wal, applied, synced, hist>>

Insert == \E s \in ApiSelfs, k \in Keys, v \in Vals : insert(Main, s, k, v) /\ Untracked
Get == \E s \in ApiSelfs, k \in Keys : get(Main, s, k) /\ Untracked
Remove == \E s \in ApiSelfs, k \in Keys : remove(Main, s, k) /\ Untracked
Clear == \E s \in ApiSelfs : clear(Main, s) /\ Untracked
Cas == \E s \in ApiSelfs, k \in Keys, p \in CasPairs :
         compare_and_swamp(Main, s, k, p[1], p[2]) /\ Untracked
ContainsKey == \E s \in ApiSelfs, k \in Keys : contains_key(Main, s, k) /\ Untracked
Length == \E s \in ApiSelfs : len(Main, s) /\ Untracked
IsEmpty == \E s \in ApiSelfs : is_empty(Main, s) /\ Untracked
AllBegin == \E s \in ApiSelfs : all_begin(Main, s) /\ Untracked
AllNext == all_next(Main) /\ Untracked
AllEnd == all_end(Main) /\ Untracked
OpenTree == \E n \in ApiNames : open_tree(Main, n, 1) /\ Untracked
DropTree == \E n \in ApiNames : drop_tree(Main, n) /\ Untracked

Next ==
  \/ Insert \/ Get \/ Remove \/ Clear \/ Cas \/ ContainsKey \/ Length \/ IsEmpty
  \/ AllBegin \/ AllNext \/ AllEnd \/ OpenTree \/ DropTree

Spec == Init /\ [][Next]_vars

\* ---------------------------------------------------------------- SpecReg
\* One Python thread opening and dropping the trees "a" and "b", holding
\* them in its two variables, and calling every method on them; entries
\* use a single key.
RegKey == KeyList[1]

RegOpenTree == \E n \in TreeNames, h \in Slots : open_tree(Main, n, h) /\ Untracked
RegDropTree == \E n \in TreeNames : drop_tree(Main, n) /\ Untracked
RegInsert == \E s \in Slots, v \in Vals : insert(Main, s, RegKey, v) /\ Untracked
RegGet == \E s \in Slots : get(Main, s, RegKey) /\ Untracked
RegRemove == \E s \in Slots : remove(Main, s, RegKey) /\ Untracked
RegClear == \E s \in Slots : clear(Main, s) /\ Untracked
RegCas == \E s \in Slots, p \in CasPairs :
            compare_and_swamp(Main, s, RegKey, p[1], p[2]) /\ Untracked
RegContainsKey == \E s \in Slots : contains_key(Main, s, RegKey) /\ Untracked
RegLength == \E s \in Slots : len(Main, s) /\ Untracked
RegIsEmpty == \E s \in Slots : is_empty(Main, s) /\ Untracked
RegAllBegin == \E s \in Slots : all_begin(Main, s) /\ Untracked
RegAllNext == all_next(Main) /\ Untracked
RegAllEnd == all_end(Main) /\ Untracked

NextReg ==
  \/ RegOpenTree \/ RegDropTree \/ RegInsert \/ RegGet \/ RegRemove \/ RegClear
  \/ RegCas \/ RegContainsKey \/ RegLength \/ RegIsEmpty
  \/ RegAllBegin \/ RegAllNext \/ RegAllEnd
SpecReg == Init /\ [][NextReg]_vars

\* ---------------------------------------------------------------- SpecCas
\* Two Python threads, each calling compare_and_swamp once, on the same key
\* of the same object and with the same expected value.  The store holds
\* any content when they start; the tree "a" is open as handles[1].
Populated ==
  /\ tenants = [n \in Names |-> IF n = DEFAULT_TREE_ID THEN DbInst
                                ELSE IF n = "a" THEN 1 ELSE NoInst]
  /\ \E d0 \in [Keys -> OptVals], d1 \in [Keys -> OptVals] :
       /\ trees = [i \in Insts |->
                    IF i = DbInst THEN [NewTree(DEFAULT_TREE_ID) EXCEPT !.data = d0]
                    ELSE IF i = 1 THEN [NewTree("a") EXCEPT !.data = d1]
                    ELSE FreeTree]
       /\ TotalEntries(trees) <= MaxEntries
  /\ handles = [h \in Slots |-> IF h = 1 THEN 1 ELSE NoInst]
  /\ opened = [h \in Slots |-> IF h = 1 THEN "a" ELSE ""]
  /\ gil = NoThread
  /\ scan = [t \in Threads |-> NoScan]
  /\ call = [t \in Threads |-> NoCall]
  /\ ret = [t \in Threads |-> Idle]

InitCas == Populated /\ InitDur /\ hist = <<>>

\* The history gets the call that just took effect, what it returned and
\* the value its key held when it started.
Observe(t) ==
  hist' = Append(hist, [t |-> t, call |-> call'[t], ret |-> ret'[t],
                        cur |-> trees[inner(call'[t].self)].data[call'[t].key]])

CasCaller(t) ==
  /\ call[t].op = "none"
  /\ \E s \in ApiSelfs, k \in Keys, old \in OptVals, new \in OptVals :
       /\ \A u \in Threads \ {t} :
            call[u].op = "compare_and_swamp" =>
              call[u].self = s /\ call[u].key = k /\ call[u].old = old
       /\ compare_and_swamp(t, s, k, old, new)
  /\ Observe(t)
  /\ UNCHANGED durVars

CasA == CasCaller("A")
CasB == CasCaller("B")
NextCas == CasA \/ CasB
SpecCas == InitCas /\ [][NextCas]_vars

\* ---------------------------------------------------------------- SpecLin
\* Two Python threads calling insert, remove, get and compare_and_swamp on
\* one key of the Database, in any interleaving; hist keeps the calls in the
\* order in which they took effect.
LinKey == KeyList[1]

LinInsert(t) ==
  /\ Len(hist) < MaxHist
  /\ \E v \in Vals : insert(t, 0, LinKey, v)
  /\ Observe(t)
  /\ UNCHANGED durVars

LinRemove(t) ==
  /\ Len(hist) < MaxHist
  /\ remove(t, 0, LinKey)
  /\ Observe(t)
  /\ UNCHANGED durVars

LinGet(t) ==
  /\ Len(hist) < MaxHist
  /\ get(t, 0, LinKey)
  /\ Observe(t)
  /\ UNCHANGED durVars

LinCas(t) ==
  /\ Len(hist) < MaxHist
  /\ \E old \in OptVals, new \in OptVals : compare_and_swamp(t, 0, LinKey, old, new)
  /\ Observe(t)
  /\ UNCHANGED durVars

InsertA == LinInsert("A")
InsertB == LinInsert("B")
RemoveA == LinRemove("A")
RemoveB == LinRemove("B")
GetA == LinGet("A")
GetB == LinGet("B")
LinCasA == LinCas("A")
LinCasB == LinCas("B")
NextLin ==
  \/ InsertA \/ InsertB \/ RemoveA \/ RemoveB \/ GetA \/ GetB \/ LinCasA \/ LinCasB
SpecLin == Init /\ [][NextLin]_vars

\* ---------------------------------------------------------------- SpecScan
\* Thread A runs all() once and thread B runs clear() once on the same
\* object, in any interleaving, on a store holding any content.
SameObject(t, s) ==
  \A u \in Threads \ {t} : call[u].op # "none" => call[u].self = s

ScanBegin ==
  /\ call["A"].op = "none"
  /\ \E s \in ApiSelfs : SameObject("A", s) /\ all_begin("A", s)
  /\ UNCHANGED <<hist, durVars>>

ScanNext == all_next("A") /\ UNCHANGED <<hist, durVars>>
ScanEnd == all_end("A") /\ UNCHANGED <<hist, durVars>>

\* The history gets the content of the tree as clear() found it.
ScanClear ==
  /\ call["B"].op = "none"
  /\ \E s \in ApiSelfs : SameObject("B", s) /\ clear("B", s)
  /\ hist' = Append(hist, [t |-> "B", call |-> call'["B"], ret |-> ret'["B"],
                          cur |-> trees[inner(call'["B"].self)].data])
  /\ UNCHANGED durVars

NextScan == ScanBegin \/ ScanNext \/ ScanEnd \/ ScanClear
SpecScan == InitCas /\ [][NextScan]_vars

\* ---------------------------------------------------------------- SpecDur
\* One Python thread mutating the Database and the tree "a", flushing, and
\* restarting (the process ends at any point and the location is opened
\* again).  At most MaxLog mutation records are written in all.
LogRoom == Len(applied) < MaxLog /\ hist' = <<>>

DurInsert == LogRoom /\ \E s \in ApiSelfs, k \in Keys, v \in Vals : insert(Main, s, k, v) /\ Logged(Main)
DurRemove == LogRoom /\ \E s \in ApiSelfs, k \in Keys : remove(Main, s, k) /\ Logged(Main)
DurClear == LogRoom /\ \E s \in ApiSelfs : clear(Main, s) /\ Logged(Main)
DurOpenTree == LogRoom /\ open_tree(Main, "a", 1) /\ Logged(Main)
DurDropTree == LogRoom /\ drop_tree(Main, "a") /\ Logged(Main)

\* synced follows what flush returned to the caller.
DurFlush ==
  /\ \E ok \in BOOLEAN : flush(Main, ok)
  /\ synced' = IF ret'[Main].tag = "PyOk" THEN Len(applied) ELSE synced
  /\ hist' = <<>>
  /\ UNCHANGED applied

DurStabilize == stabilize /\ hist' = <<>> /\ UNCHANGED <<applied, synced>>

\* The history of records restarts from those that were stable; until the
\* next step hist tells how many records the restart lost and how many had
\* been applied and flushed.
DurRestart ==
  /\ SledDb_new(Main)
  /\ applied' = SubSeq(applied, 1, Len(applied) - Len(wal))
  /\ synced' = Len(applied) - Len(wal)
  /\ hist' = <<[t |-> Main, call |-> call'[Main], ret |-> ret'[Main],
               cur |-> [lost |-> Len(wal), applied |-> Len(applied), synced |-> synced]]>>

NextDur ==
  \/ DurInsert \/ DurRemove \/ DurClear \/ DurOpenTree \/ DurDropTree
  \/ DurFlush \/ DurStabilize \/ DurRestart
SpecDur == Init /\ [][NextDur]_vars

\* ---------------------------------------------------------------- SpecSum
\* Two Python threads, A working on the tree "a" and B on the tree "b",
\* each building its tree's content with its own calls and taking
\* checksums; A also takes the checksum of the Database.  Here hist keeps
\* the name of the last mutating method each thread called.
InitSum ==
  /\ tenants = [n \in Names |-> IF n = DEFAULT_TREE_ID THEN DbInst
                                ELSE IF n = "a" THEN 1 ELSE 2]
  /\ trees = [i \in Insts |-> IF i = DbInst THEN NewTree(DEFAULT_TREE_ID)
                               ELSE IF i = 1 THEN NewTree("a")
                               ELSE IF i = 2 THEN NewTree("b") ELSE FreeTree]
  /\ handles = [h \in Slots |-> h]
  /\ opened = [h \in Slots |-> IF h = 1 THEN "a" ELSE "b"]
  /\ gil = NoThread
  /\ scan = [t \in Threads |-> NoScan]
  /\ call = [t \in Threads |-> NoCall]
  /\ ret = [t \in Threads |-> Idle]
  /\ InitDur
  /\ hist = [t \in Threads |-> "none"]

Own(t) == IF t = "A" THEN 1 ELSE 2
Noted(t) == hist' = [hist EXCEPT ![t] = call'[t].op] /\ UNCHANGED durVars

SumInsert == \E t \in Threads, k \in Keys, v \in Vals : insert(t, Own(t), k, v) /\ Noted(t)
SumRemove == \E t \in Threads, k \in Keys : remove(t, Own(t), k) /\ Noted(t)
SumClear == \E t \in Threads : clear(t, Own(t)) /\ Noted(t)
SumChecksum == \E t \in Threads : checksum(t, Own(t)) /\ UNCHANGED <<hist, durVars>>
SumDbChecksum == checksum("A", 0) /\ UNCHANGED <<hist, durVars>>

NextSum == SumInsert \/ SumRemove \/ SumClear \/ SumChecksum \/ SumDbChecksum
SpecSum == InitSum /\ [][NextSum]_vars

\* ---------------------------------------------------------------- SpecMap
\* One Python thread using the Database and the SledTree of "a" as
\* mappings (k in t, t[k], t[k] = v, del t[k]) and through the named
\* methods; the tree "a" is opened, and may be dropped under its handle.
MapInsert == \E s \in ApiSelfs, k \in Keys, v \in Vals : insert(Main, s, k, v) /\ Untracked
MapGet == \E s \in ApiSelfs, k \in Keys : get(Main, s, k) /\ Untracked
MapRemove == \E s \in ApiSelfs, k \in Keys : remove(Main, s, k) /\ Untracked
MapContainsKey == \E s \in ApiSelfs, k \in Keys : contains_key(Main, s, k) /\ Untracked
MapContains == \E s \in ApiSelfs, k \in Keys : __contains__(Main, s, k) /\ Untracked
MapGetItem == \E s \in ApiSelfs, k \in Keys : __getitem__(Main, s, k) /\ Untracked
MapSetItem == \E s \in ApiSelfs, k \in Keys, v \in Vals : __setitem__(Main, s, k, v) /\ Untracked
MapDelItem == \E s \in ApiSelfs, k \in Keys : __delitem__(Main, s, k) /\ Untracked
MapOpenTree == open_tree(Main, "a", 1) /\ Untracked
MapDropTree == drop_tree(Main, "a") /\ Untracked

NextMap ==
  \/ MapInsert \/ MapGet \/ MapRemove \/ MapContainsKey
  \/ MapContains \/ MapGetItem \/ MapSetItem \/ MapDelItem
  \/ MapOpenTree \/ MapDropTree
SpecMap == Init /\ [][NextMap]_vars

\* ---------------------------------------------------------------- SpecDrop
\* One Python thread on a location whose tree "a" holds any content, all
\* of it stable: it drops the tree, opens it again and flushes, in any
\* order, and restarts once after the drop.
\* hist keeps the content the tree had when it was dropped and, after it,
\* the restart.
InitDrop ==
  /\ tenants = [n \in Names |-> IF n = DEFAULT_TREE_ID THEN DbInst
                                ELSE IF n = "a" THEN 1 ELSE NoInst]
  /\ \E d1 \in [Keys -> OptVals] :
       /\ trees = [i \in Insts |->
                    IF i = DbInst THEN NewTree(DEFAULT_TREE_ID)
                    ELSE IF i = 1 THEN [NewTree("a") EXCEPT !.data = d1]
                    ELSE FreeTree]
       /\ TotalEntries(trees) <= MaxEntries
  /\ handles = [h \in Slots |-> IF h = 1 THEN 1 ELSE NoInst]
  /\ opened = [h \in Slots |-> IF h = 1 THEN "a" ELSE ""]
  /\ gil = NoThread
  /\ scan = [t \in Threads |-> NoScan]
  /\ call = [t \in Threads |-> NoCall]
  /\ ret = [t \in Threads |-> Idle]
  /\ InitDur
  /\ hist = <<>>

DropDropTree ==
  /\ Len(applied) < MaxLog
  /\ drop_tree(Main, "a")
  /\ Logged(Main)
  /\ hist' = IF ret'[Main] = PyOk(TRUE) /\ hist = <<>>
             THEN <<[t |-> Main, call |-> call'[Main], ret |-> ret'[Main],
                     cur |-> trees[tenants["a"]].data]>>
             ELSE hist

DropOpenTree ==
  /\ Len(applied) < MaxLog
  /\ open_tree(Main, "a", 1)
  /\ Logged(Main)
  /\ UNCHANGED hist

DropFlush ==
  /\ \E ok \in BOOLEAN : flush(Main, ok)
  /\ synced' = IF ret'[Main].tag = "PyOk" THEN Len(applied) ELSE synced
  /\ UNCHANGED <<applied, hist>>

DropStabilize == stabilize /\ UNCHANGED <<applied, synced, hist>>

DropRestart ==
  /\ Len(hist) = 1
  /\ SledDb_new(Main)
  /\ applied' = SubSeq(applied, 1, Len(applied) - Len(wal))
  /\ synced' = Len(applied) - Len(wal)
  /\ hist' = Append(hist, [t |-> Main, call |-> call'[Main], ret |-> ret'[Main],
                           cur |-> [lost |-> Len(wal), applied |-> Len(applied),
                                    synced |-> synced]])

NextDrop ==
  \/ DropDropTree \/ DropOpenTree
  \/ DropFlush \/ DropStabilize \/ DropRestart
SpecDrop == InitDrop /\ [][NextDrop]_vars

\* ---------------------------------------------------------------- claims
\* A step in which thread t ran the single-call method op.
Ran(t, op) ==
  /\ gil = NoThread /\ gil' = NoThread
  /\ call'[t].op = op
  /\ \A u \in Threads \ {t} : call'[u] = call[u] /\ ret'[u] = ret[u]

SameExcept(d1, d2, key) == \A k \in Keys \ {key} : d1[k] = d2[k]

\* C1: compare_and_swap on the Database or a live Tree swaps exactly when
\* the key's current value equals expected_old: on a match the key then
\* holds proposed_new and the call returns no descriptor; on a mismatch it
\* returns the descriptor (current = the key's value, proposed = the
\* caller's proposed_new) and the content of every tree is unchanged.
CasStepOk(t) ==
  LET c == call'[t]
      i == inner(c.self)
      cur == trees[i].data[c.key]
  IN (Ran(t, "compare_and_swamp") /\ Live(trees[i])) =>
       IF cur = c.old
       THEN /\ ret'[t] = PyOk(None)
            /\ trees'[i].data[c.key] = c.val
            /\ SameExcept(trees'[i].data, trees[i].data, c.key)
            /\ \A j \in Insts \ {i} : trees'[j] = trees[j]
       ELSE /\ ret'[t] = PyOk(Some(CompareAndSwapError(cur, c.val)))
            /\ trees' = trees

C1_CasAppliesIffMatch == [][\A t \in Threads : CasStepOk(t)]_vars

\* A conflict was reported on a SledTree for a key that holds a value,
\* the caller having proposed a deletion.
C1_Witness ==
  /\ call[Main].op = "compare_and_swamp"
  /\ call[Main].self = 1
  /\ call[Main].val = None
  /\ ret[Main].tag = "PyOk"
  /\ ret[Main].val # None
  /\ IsSome(ret[Main].val[1].current)

BothCasDone == \A t \in Threads : call[t].op = "compare_and_swamp"
Succeeded(t) == ret[t] = PyOk(None)
\* Exactly one caller succeeded and the other was told that the key holds
\* what the winner proposed.
OneWinner ==
  \E w \in Threads : \A l \in Threads \ {w} :
    /\ Succeeded(w)
    /\ ~Succeeded(l)
    /\ ret[l].tag = "PyOk"
    /\ ret[l].val[1].current = call[w].val

\* C2 as stated: of two concurrent compare_and_swap calls on one key with
\* the same expected_old exactly one succeeds, and the loser's descriptor
\* has current equal to the winner's proposed value.
C2_Original == BothCasDone => OneWinner

\* C2 as amended: the same, provided the key held expected_old when the
\* first of the two calls took effect and that call proposed a value other
\* than expected_old.
C2_ExactlyOneWins ==
  (/\ BothCasDone
   /\ hist[1].cur = hist[1].call.old
   /\ hist[1].call.val # hist[1].call.old) => OneWinner

\* Both called with the value the key held; B took effect first, with a
\* proposal of its own, and A was refused.
C2_Witness ==
  /\ BothCasDone
  /\ hist[1].t = "B"
  /\ hist[1].cur = hist[1].call.old
  /\ hist[1].call.val # hist[1].call.old
  /\ IsSome(hist[1].call.old)
  /\ Succeeded("B")
  /\ ~Succeeded("A")

\* The sequential register: what a call must return when the key holds
\* cur, and what the key holds after it.
RegReturn(c, cur) ==
  IF c.op = "compare_and_swamp"
  THEN IF cur = c.old THEN PyOk(None)
       ELSE PyOk(Some(CompareAndSwapError(cur, c.val)))
  ELSE PyOk(cur)

RegAfter(c, cur) ==
  IF c.op = "insert" THEN c.val
  ELSE IF c.op = "remove" THEN None
  ELSE IF c.op = "compare_and_swamp" /\ cur = c.old THEN c.val
  ELSE cur

RECURSIVE RegValue(_, _)
RegValue(h, n) == IF n = 0 THEN None ELSE RegAfter(h[n].call, RegValue(h, n - 1))

\* C3: the calls on one key, in the order in which they took effect (which
\* keeps each thread's own order), form a sequential history of a single
\* register: every get, every returned previous value and every
\* compare_and_swap comparison sees the value left by the latest earlier
\* mutation, and the tree holds the value left by the last one.
C3_Linearizable ==
  /\ \A n \in 1..Len(hist) : hist[n].ret = RegReturn(hist[n].call, RegValue(hist, n - 1))
  /\ (hist # <<>>) => trees[DbInst].data[LinKey] = RegValue(hist, Len(hist))

\* A inserted, then B's compare_and_swamp expecting A's value succeeded,
\* then A's own compare_and_swamp expecting its value was refused.
C3_Witness ==
  /\ Len(hist) >= 3
  /\ hist[1].t = "A" /\ hist[1].call.op = "insert"
  /\ hist[2].t = "B" /\ hist[2].call.op = "compare_and_swamp"
  /\ hist[2].call.old = hist[1].call.val
  /\ hist[2].ret = PyOk(None)
  /\ hist[3].t = "A" /\ hist[3].call.op = "compare_and_swamp"
  /\ hist[3].call.old = hist[1].call.val
  /\ hist[3].ret # PyOk(None)

\* ---------------------------------------------------------------- registry claims
MutatingMethods == {"insert", "remove", "clear", "compare_and_swamp"}
TreeMethods ==
  MutatingMethods \cup {"get", "contains_key", "len", "is_empty", "all"}

\* The tree registered under the name for which slot h was opened.
Registered(h) == tenants[opened[h]]

\* The entries of a tree in ascending key order.
RECURSIVE Ascending(_, _)
Ascending(d, ks) ==
  IF ks = {} THEN <<>>
  ELSE LET k == CHOOSE x \in ks : \A y \in ks \ {x} : LexLess(x, y)
       IN <<<<k, Unwrap(d[k])>>>> \o Ascending(d, ks \ {k})
Entries(d) == Ascending(d, {k \in Keys : IsSome(d[k])})

IsolatedStep(t) ==
  LET c == call'[t]
  IN /\ ((\E op \in MutatingMethods : Ran(t, op)) /\ c.self \in Slots) =>
          /\ tenants' = tenants
          /\ \A m \in Names \ {opened[c.self]} :
               tenants[m] # NoInst => trees'[tenants[m]] = trees[tenants[m]]
     /\ (Ran(t, "insert") /\ c.self \in Slots /\ ret'[t].tag = "PyOk") =>
          /\ Registered(c.self) # NoInst
          /\ trees'[Registered(c.self)].data[c.key] = c.val
     /\ (Ran(t, "get") /\ c.self \in Slots /\ ret'[t].tag = "PyOk") =>
          /\ Registered(c.self) # NoInst
          /\ ret'[t].val = trees[Registered(c.self)].data[c.key]
     /\ Ran(t, "drop_tree") =>
          \A m \in Names \ {c.name} :
            /\ tenants'[m] = tenants[m]
            /\ tenants[m] # NoInst => trees'[tenants[m]] = trees[tenants[m]]

\* C6: a successful insert through a handle opened for name n puts the
\* value into the tree registered as n and a successful get returns that
\* tree's value; insert, remove, clear and compare_and_swap through the
\* handle leave the tree of every other name unchanged, and drop_tree(n)
\* leaves every other name registered with its content unchanged.
C6_TreeIsolation == [][\A t \in Threads : IsolatedStep(t)]_vars

\* The trees "a" and "b" hold different values under the same key and a get
\* on the handle of "b" has just returned the one of "b".
C6_Witness ==
  /\ tenants["a"] # NoInst /\ tenants["b"] # NoInst
  /\ IsSome(trees[tenants["a"]].data[RegKey])
  /\ IsSome(trees[tenants["b"]].data[RegKey])
  /\ trees[tenants["a"]].data[RegKey] # trees[tenants["b"]].data[RegKey]
  /\ call[Main].op = "get" /\ call[Main].self \in Slots
  /\ opened[call[Main].self] = "b"
  /\ ret[Main] = PyOk(trees[tenants["b"]].data[RegKey])

LiveHandle(h) == handles[h] # NoInst /\ Live(trees[handles[h]])
Aliases(h) == {g \in Slots : LiveHandle(g) /\ opened[g] = opened[h]}

AliasingStep(t) ==
  LET c == call'[t]
  IN /\ (Ran(t, "open_tree") /\ tenants[c.name] = NoInst) =>
          /\ ret'[t] = PyOk(c.self)
          /\ handles'[c.self] = tenants'[c.name]
          /\ trees'[handles'[c.self]] = NewTree(c.name)
     /\ (Ran(t, "open_tree") /\ tenants[c.name] # NoInst) =>
          /\ ret'[t] = PyOk(c.self)
          /\ handles'[c.self] = tenants[c.name]
          /\ tenants' = tenants
          /\ trees'[tenants[c.name]] = trees[tenants[c.name]]
     /\ (Ran(t, "get") /\ c.self \in Slots /\ LiveHandle(c.self)) =>
          \A g \in Aliases(c.self) : ret'[t] = PyOk(trees[handles[g]].data[c.key])
     /\ (Ran(t, "contains_key") /\ c.self \in Slots /\ LiveHandle(c.self)) =>
          \A g \in Aliases(c.self) : ret'[t] = PyOk(IsSome(trees[handles[g]].data[c.key]))
     /\ (Ran(t, "len") /\ c.self \in Slots /\ LiveHandle(c.self)) =>
          \A g \in Aliases(c.self) : ret'[t] = PyOk(Len(Entries(trees[handles[g]].data)))
     /\ (gil = t /\ gil' = NoThread /\ c.self \in Slots /\ LiveHandle(c.self)) =>
          \A g \in Aliases(c.self) : ret'[t] = PyOk(Entries(trees[handles[g]].data))

\* C7: open_tree of an unregistered name registers an empty tree; open_tree
\* of a registered name returns a handle to the registered tree and changes
\* nothing; all live handles opened for one name are the same tree, so a
\* get, contains, len or scan through one returns the content as last
\* written through any other.
C7_OpenTreeAliases ==
  /\ [](\A h \in Slots : \A g \in Aliases(h) : LiveHandle(h) => handles[g] = handles[h])
  /\ [][\A t \in Threads : AliasingStep(t)]_vars

\* Both variables hold the tree "a"; an entry exists, and a get through
\* variable 2 has just returned it.
C7_Witness ==
  /\ LiveHandle(1) /\ LiveHandle(2)
  /\ opened[1] = "a" /\ opened[2] = "a"
  /\ IsSome(trees[tenants["a"]].data[RegKey])
  /\ call[Main].op = "get" /\ call[Main].self = 2
  /\ ret[Main] = PyOk(trees[handles[1]].data[RegKey])

\* C8 as stated: once its tree is dropped, every method called on a stale
\* handle fails with the tree-dropped error.
C8_Original ==
  \A t \in Threads :
    (/\ gil = NoThread
     /\ call[t].op \in TreeMethods
     /\ call[t].self \in Slots
     /\ handles[call[t].self] # NoInst
     /\ ~Live(trees[handles[call[t].self]]))
    => ret[t] = PyValueError(TreeDroppedError)

DropStep(t) ==
  LET n == call'[t].name
  IN Ran(t, "drop_tree") =>
       IF n = DEFAULT_TREE_ID
       THEN /\ ret'[t].tag = "PyValueError"
            /\ tenants' = tenants /\ trees' = trees
       ELSE IF tenants[n] # NoInst
       THEN /\ ret'[t] = PyOk(TRUE)
            /\ tenants'[n] = NoInst
            /\ \A i \in Insts : Live(trees'[i]) => trees'[i].name # n
       ELSE /\ ret'[t] = PyOk(FALSE)
            /\ tenants' = tenants /\ trees' = trees

\* C9: drop_tree(name) returns true exactly when the name was registered,
\* and the tree is then removed; it returns false and changes nothing when
\* it was not; for the default tree's name it raises an error and neither
\* the registry nor any entry changes.
C9_DropTreeResult == [][\A t \in Threads : DropStep(t)]_vars

\* drop_tree of the default tree's name was refused while the default
\* tree holds an entry.
C9_Witness ==
  /\ call[Main].op = "drop_tree"
  /\ call[Main].name = DEFAULT_TREE_ID
  /\ ret[Main].tag = "PyValueError"
  /\ \E k \in Keys : IsSome(trees[DbInst].data[k])

\* ---------------------------------------------------------------- scan claims
ScanReturned == call["A"].op = "all" /\ gil # "A" /\ ret["A"].tag = "PyOk"
PreClear ==
  IF hist = <<>> THEN trees[inner(call["A"].self)].data ELSE hist[1].cur

\* C10: a full scan that runs concurrently with a clear() of the same tree
\* returns all the entries the tree held before the clear, or none of them.
C10_ClearAtomicForScan ==
  ScanReturned => (ret["A"].val = Entries(PreClear) \/ ret["A"].val = <<>>)

\* The scan returned two entries and the clear has since emptied the tree.
C10_Witness ==
  /\ ScanReturned
  /\ hist # <<>>
  /\ Len(ret["A"].val) >= 2
  /\ trees[inner(call["A"].self)].data = EmptyData

\* ---------------------------------------------------------------- durability claims
\* A step in which thread t opened the location again.
Restarted(t) == call'[t].op = "new" /\ disk' = disk /\ wal' = <<>>

\* C4: when every mutation applied so far was covered by a flush that
\* returned successfully, ending the process and opening the location
\* again gives back every tree that was registered, the default tree and
\* the named ones, each with the same entries in the same ascending order.
RoundTrip(t) ==
  (Restarted(t) /\ synced = Len(applied)) =>
     /\ MemContent' = MemContent
     /\ \A n \in Names :
          tenants[n] # NoInst =>
            /\ tenants'[n] # NoInst
            /\ Entries(trees'[tenants'[n]].data) = Entries(trees[tenants[n]].data)

C4_RoundTrip == [][\A t \in Threads : RoundTrip(t)]_vars

\* The location was opened again after a flush had covered everything; the
\* default tree and the tree "a" each came back with an entry.
C4_Witness ==
  /\ call[Main].op = "new"
  /\ hist # <<>>
  /\ hist[1].cur.synced = hist[1].cur.applied
  /\ tenants["a"] # NoInst
  /\ Present(trees[tenants["a"]]) # {}
  /\ Present(trees[DbInst]) # {}

\* C5: after the process ends at any point and the location is opened
\* again, the content of all trees is the result of applying, in order, a
\* prefix of the mutations applied before, and the prefix holds at least
\* every mutation applied before the last flush that returned successfully.
RecoversPrefix(t) ==
  Restarted(t) =>
    \E p \in synced..Len(applied) :
      MemContent' = ApplyAll(FreshContent, SubSeq(applied, 1, p))

C5_CrashRecoversPrefix == [][\A t \in Threads : RecoversPrefix(t)]_vars

\* The location was opened again after a crash that lost a record applied
\* after the last successful flush, which had covered at least one record.
C5_Witness ==
  /\ call[Main].op = "new"
  /\ hist # <<>>
  /\ hist[1].cur.lost >= 1
  /\ hist[1].cur.synced >= 1

\* ---------------------------------------------------------------- checksum claims
TookChecksum(t) ==
  /\ call[t].op = "checksum"
  /\ call[t].self \in Slots
  /\ LiveHandle(call[t].self)

\* C11: two trees that hold the same entries, however each of them came to
\* hold them, return the same checksum: the checksum of a tree is a
\* function of the entries it holds when the checksum is taken.
C11_ChecksumDeterminism ==
  \A t \in Threads, u \in Threads :
    (/\ TookChecksum(t) /\ TookChecksum(u)
     /\ trees[handles[call[t].self]].data = trees[handles[call[u].self]].data)
    => (ret[t].tag = "PyOk" /\ ret[t] = ret[u])

\* The trees "a" and "b" hold the same entry; "a" got it by one insert,
\* "b" had a further key, removed last; both checksums have been taken.
C11_Witness ==
  /\ TookChecksum("A") /\ TookChecksum("B")
  /\ trees[1].data = trees[2].data
  /\ Present(trees[1]) # {}
  /\ hist["A"] = "insert"
  /\ hist["B"] = "remove"
  /\ ret["A"] = ret["B"]

\* ---------------------------------------------------------------- map claims
\* The tree on which the call of thread t that has just run acted.
Target(t) == inner(call'[t].self)
OnLive(t) == Live(trees[Target(t)])
OthersSame(i) == \A j \in Insts \ {i} : trees'[j] = trees[j]

\* The calls that may change the value of key k in tree i.
MutationOf(t, i, k) ==
  \/ /\ call'[t].op \in {"insert", "remove", "compare_and_swamp",
                         "__setitem__", "__delitem__"}
     /\ Target(t) = i /\ call'[t].key = k
  \/ call'[t].op = "clear" /\ Target(t) = i
  \/ call'[t].op \in {"open_tree", "drop_tree", "new"}

MapStep(t) ==
  LET c == call'[t]
      i == Target(t)
  IN /\ (Ran(t, "insert") /\ OnLive(t)) =>
          /\ ret'[t] = PyOk(trees[i].data[c.key])
          /\ trees'[i].data[c.key] = c.val
          /\ SameExcept(trees'[i].data, trees[i].data, c.key)
          /\ OthersSame(i) /\ tenants' = tenants
     /\ (Ran(t, "get") /\ OnLive(t)) =>
          /\ ret'[t] = PyOk(trees[i].data[c.key])
          /\ trees' = trees /\ tenants' = tenants
     /\ (Ran(t, c.op) /\ c.op # "none") =>
          \A j \in Insts, k \in Keys :
            (Live(trees[j]) /\ trees'[j].data[k] # trees[j].data[k]) => MutationOf(t, j, k)

\* C12: on a live tree insert(k, v) returns the value k held when it was
\* called (absent when it held none), k then holds v and every other key
\* and tree is as before; get(k) returns the value k holds and changes
\* nothing; and the value of a key changes only in a call that mutates
\* that key, so get(k) returns v until then.
C12_InsertGetMap == [][\A t \in Threads : MapStep(t)]_vars

\* An insert through the SledTree has overwritten a value with a different
\* one and returned the old one, while the tree holds another key too.
C12_Witness ==
  /\ call[Main].op = "insert"
  /\ call[Main].self = 1
  /\ LiveHandle(1)
  /\ ret[Main].tag = "PyOk"
  /\ IsSome(ret[Main].val)
  /\ ret[Main].val # call[Main].val
  /\ trees[handles[1]].data[call[Main].key] = call[Main].val
  /\ Cardinality(Present(trees[handles[1]])) >= 2

RemoveStep(t) ==
  LET c == call'[t]
      i == Target(t)
      cur == trees[i].data[c.key]
  IN /\ (Ran(t, "remove") /\ OnLive(t)) =>
          IF IsSome(cur)
          THEN /\ ret'[t] = PyOk(cur)
               /\ trees'[i].data[c.key] = None
               /\ SameExcept(trees'[i].data, trees[i].data, c.key)
               /\ OthersSame(i) /\ tenants' = tenants
          ELSE /\ ret'[t] = PyOk(None)
               /\ trees' = trees /\ tenants' = tenants
               /\ Tree_len(trees'[i]) = Tree_len(trees[i])
     /\ (Ran(t, "remove") /\ OnLive(t) /\ call[t].op = "remove"
           /\ call[t].self = c.self /\ call[t].key = c.key /\ ret[t].tag = "PyOk") =>
          /\ ret'[t] = PyOk(None)
          /\ trees' = trees

\* C13: remove(k) of a present key returns its value and leaves the key
\* absent and everything else as it was; remove(k) of an absent key
\* returns absent without an error and leaves the content and len() of
\* the tree unchanged; a remove(k) that follows a remove(k) returns absent
\* and changes nothing.
C13_IdempotentRemove == [][\A t \in Threads : RemoveStep(t)]_vars

\* A remove of an absent key has returned absent on a SledTree that holds
\* an entry under another key.
C13_Witness ==
  /\ call[Main].op = "remove"
  /\ call[Main].self = 1
  /\ LiveHandle(1)
  /\ ret[Main] = PyOk(None)
  /\ Present(trees[handles[1]]) # {}

\* ---------------------------------------------------------------- scan order claims
StrictlyAscending(out) ==
  \A m \in 1..Len(out), n \in 1..Len(out) : m < n => LexLess(out[m][1], out[n][1])

\* all() of thread t has returned its list and t has called nothing since.
AllReturned(t) ==
  /\ call[t].op = "all"
  /\ gil # t
  /\ ret[t].tag = "PyOk"

\* C14: the list returned by all() is in strictly ascending lexicographic
\* order of the key bytes, so no key is in it twice, and it holds, for
\* each key of the tree, the one value the tree holds for it; the list
\* being built is in that order at every turn of the loop.
C14_ScanAscending ==
  \A t \in Threads :
    /\ StrictlyAscending(scan[t].out)
    /\ AllReturned(t) =>
         /\ StrictlyAscending(ret[t].val)
         /\ {kv[1] : kv \in {ret[t].val[n] : n \in 1..Len(ret[t].val)}}
              = Present(trees[inner(call[t].self)])
         /\ \A n \in 1..Len(ret[t].val) :
              Some(ret[t].val[n][2]) = trees[inner(call[t].self)].data[ret[t].val[n][1]]

\* all() on the SledTree has returned two entries, the key <<0, 1>> before
\* the key <<1>>.
C14_Witness ==
  /\ AllReturned(Main)
  /\ call[Main].self = 1
  /\ Len(ret[Main].val) >= 2
  /\ ret[Main].val[1][1] = <<0, 1>>
  /\ ret[Main].val[2][1] = <<1>>

CountStep(t) ==
  LET c == call'[t]
      i == Target(t)
  IN /\ (Ran(t, "len") /\ OnLive(t)) =>
          /\ ret'[t] = PyOk(Len(Entries(trees[i].data)))
          /\ (AllReturned(t) /\ call[t].self = c.self) => ret'[t] = PyOk(Len(ret[t].val))
     /\ (Ran(t, "is_empty") /\ OnLive(t)) =>
          /\ ret'[t] = PyOk(Len(Entries(trees[i].data)) = 0)
          /\ (AllReturned(t) /\ call[t].self = c.self) => ret'[t] = PyOk(Len(ret[t].val) = 0)

\* C15: whenever no call is running, len() of a live tree returns the
\* number of entries a full scan of the tree returns in that state, and
\* is_empty() returns true exactly when that number is zero; called right
\* after all() they agree with the list all() returned.
C15_LenAgreesWithScan ==
  /\ [][\A t \in Threads : CountStep(t)]_vars
  /\ [](\A t \in Threads : AllReturned(t) => ret[t].val = Entries(trees[inner(call[t].self)].data))

\* len() has returned 1 on the SledTree of "a" while the default tree holds
\* an entry too.
C15_Witness ==
  /\ call[Main].op = "len"
  /\ call[Main].self = 1
  /\ LiveHandle(1)
  /\ handles[1] # DbInst
  /\ ret[Main] = PyOk(1)
  /\ Present(trees[DbInst]) # {}

\* ---------------------------------------------------------------- flush claims
FlushFailed(t) == call[t].op = "flush" /\ ret[t].tag = "PyValueError"

\* A step in which thread t ran flush: the page store's own writes leave
\* the thread's call and result as they are.
FlushRan(t) == Ran(t, "flush") /\ (call'[t] # call[t] \/ ret'[t] # ret[t])

FlushStep(t) ==
  /\ FlushRan(t) =>
       /\ trees' = trees /\ tenants' = tenants
       /\ IF ret'[t].tag = "PyOk"
          THEN wal' = <<>> /\ disk' = ApplyAll(disk, wal)
          ELSE ret'[t] = PyValueError(FlushError) /\ disk' = disk /\ wal' = wal
  /\ (FlushFailed(t) /\ Restarted(t)) =>
       \E p \in synced..Len(applied) :
         MemContent' = ApplyAll(FreshContent, SubSeq(applied, 1, p))

\* C16: a flush either makes every logged mutation stable and returns
\* normally, or it returns an error and stable storage and the log are
\* exactly what they were before the call: a flush that did not make
\* everything stable never returns normally.  Opening the location again
\* right after a failed flush gives the content after a prefix of the
\* applied mutations that covers every earlier successful flush.
C16_FailedFlushKeepsDurable == [][\A t \in Threads : FlushStep(t)]_vars

\* A flush has failed with mutations still in the log, after an earlier
\* flush had made at least one mutation stable.
C16_Witness ==
  /\ FlushFailed(Main)
  /\ wal # <<>>
  /\ synced >= 1
  /\ disk # FreshContent

\* ---------------------------------------------------------------- mapping claims
ContainsMethods == {"contains_key", "__contains__"}
GetMethods == {"get", "__getitem__"}

\* What get(k) returns on tree i in the state at hand.
GetWould(i, k) == PyMapOpt(convert_to_pyresult(Tree_get(trees[i], k)))
Found(r) == r.tag = "PyOk" /\ IsSome(r.val)

\* Thread t's call in this step is on the object and key of its last call.
SameTarget(t) == call'[t].self = call[t].self /\ call'[t].key = call[t].key

ContainsStep(t) ==
  LET c == call'[t]
  IN /\ (\E op \in ContainsMethods : Ran(t, op)) =>
          /\ (ret'[t] = PyOk(TRUE)) <=> Found(GetWould(Target(t), c.key))
          /\ (ret'[t].tag = "PyOk") <=> (GetWould(Target(t), c.key).tag = "PyOk")
          /\ trees' = trees
          /\ (call[t].op \in GetMethods /\ SameTarget(t)) =>
               ((ret'[t] = PyOk(TRUE)) <=> Found(ret[t]))
     /\ ((\E op \in GetMethods : Ran(t, op))
          /\ call[t].op \in ContainsMethods /\ SameTarget(t)) =>
          (Found(ret'[t]) <=> (ret[t] = PyOk(TRUE)))

\* C17: contains_key(k) and __contains__(k) return true exactly when
\* get(k) on the same object in the same state returns a present value,
\* and raise exactly when get(k) raises; a contains called right after a
\* get of the same key, or a get right after a contains, agree.
C17_ContainsIffGet == [][\A t \in Threads : ContainsStep(t)]_vars

\* k in t has returned true on the SledTree for a key whose value is the
\* empty byte string.
C17_Witness ==
  /\ call[Main].op = "__contains__"
  /\ call[Main].self = 1
  /\ LiveHandle(1)
  /\ ret[Main] = PyOk(TRUE)
  /\ trees[handles[1]].data[call[Main].key] = Some(<<>>)

\* ---------------------------------------------------------------- Database claims
DbStep(t) ==
  LET c == call'[t]
      d == trees[DbInst].data
      d2 == trees'[DbInst].data
  IN /\ ((\E op \in TreeMethods \ {"all"} : Ran(t, op)) /\ c.self = 0) =>
          /\ OthersSame(DbInst)
          /\ tenants' = tenants /\ handles' = handles
          /\ c.op = "insert" => ret'[t] = PyOk(d[c.key]) /\ d2 = [d EXCEPT ![c.key] = c.val]
          /\ c.op = "remove" => ret'[t] = PyOk(d[c.key]) /\ d2 = [d EXCEPT ![c.key] = None]
          /\ c.op = "clear" => ret'[t] = PyOk("unit") /\ d2 = EmptyData
          /\ c.op = "compare_and_swamp" =>
               IF d[c.key] = c.old
               THEN ret'[t] = PyOk(None) /\ d2 = [d EXCEPT ![c.key] = c.val]
               ELSE ret'[t] = PyOk(Some(CompareAndSwapError(d[c.key], c.val))) /\ d2 = d
          /\ c.op = "get" => ret'[t] = PyOk(d[c.key]) /\ d2 = d
          /\ c.op = "contains_key" => ret'[t] = PyOk(IsSome(d[c.key])) /\ d2 = d
          /\ c.op = "len" => ret'[t] = PyOk(Len(Entries(d))) /\ d2 = d
          /\ c.op = "is_empty" => ret'[t] = PyOk(Entries(d) = <<>>) /\ d2 = d
     /\ (c.op = "all" /\ c.self = 0 /\ gil' = NoThread /\ (gil = t \/ call[t] # c)) =>
          /\ trees' = trees /\ tenants' = tenants /\ handles' = handles
          /\ gil = t => ret'[t] = PyOk(Entries(d))

\* C18: insert, get, remove, clear, all, compare_and_swamp, len, is_empty
\* and contains_key called on the SledDb object read and write the default
\* tree and nothing else: each returns what the default tree holds, and
\* the registry, the handles and every named tree are left as they were;
\* clear() leaves the default tree empty and the named trees untouched.
C18_DbIsDefaultTree == [][\A t \in Threads : DbStep(t)]_vars

\* clear() on the SledDb object has emptied the default tree while the
\* tree "a" holds an entry.
C18_Witness ==
  /\ call[Main].op = "clear"
  /\ call[Main].self = 0
  /\ ret[Main].tag = "PyOk"
  /\ Present(trees[DbInst]) = {}
  /\ tenants["a"] # NoInst
  /\ Present(trees[tenants["a"]]) # {}

\* ---------------------------------------------------------------- drop claims
\* The last of the mutation records that are still part of the history to
\* create or drop the tree n is a drop: drop_tree(n) returned true and n
\* was not created again, and no restart lost the drop.
RECURSIVE DroppedLast(_, _)
DroppedLast(recs, n) ==
  IF recs = <<>> THEN FALSE
  ELSE LET r == recs[Len(recs)]
       IN IF r.name = n /\ r.op = "drop" THEN TRUE
          ELSE IF r.name = n /\ r.op = "create" THEN FALSE
          ELSE DroppedLast(SubSeq(recs, 1, Len(recs) - 1), n)

ReopenStep(t) ==
  LET c == call'[t]
  IN /\ (Ran(t, "open_tree") /\ DroppedLast(applied, c.name)) =>
          /\ ret'[t] = PyOk(c.self)
          /\ tenants'[c.name] = handles'[c.self]
          /\ trees'[handles'[c.self]] = NewTree(c.name)
          /\ Entries(trees'[handles'[c.self]].data) = <<>>
     /\ (Restarted(t) /\ synced = Len(applied)) =>
          \A n \in TreeNames :
            DroppedLast(applied, n) => (tenants'[n] = NoInst /\ disk[n] = None)

\* C19: once drop_tree(name) has returned true, the name is not
\* registered, and the next open_tree(name) returns a live tree with no
\* entry; when a flush has covered the drop, the name is still not
\* registered after the location is opened again, so open_tree(name) then
\* returns an empty tree too.
C19_NoResurrection ==
  /\ [](\A n \in TreeNames : DroppedLast(applied, n) => tenants[n] = NoInst)
  /\ [][\A t \in Threads : ReopenStep(t)]_vars

\* The tree "a" held an entry when it was dropped; the location was then
\* opened again with nothing lost, and open_tree has returned an empty
\* tree "a".
C19_Witness ==
  /\ Len(hist) = 2
  /\ \E k \in Keys : IsSome(hist[1].cur[k])
  /\ hist[2].cur.lost = 0
  /\ call[Main].op = "open_tree"
  /\ ret[Main] = PyOk(1)
  /\ LiveHandle(1)
  /\ Present(trees[handles[1]]) = {}
  /\ applied = <<TreeRec("drop", "a"), TreeRec("create", "a")>>

Unit(r) == IF r.tag = "PyOk" THEN PyOk("unit") ELSE r

MappingStep(t) ==
  LET c == call'[t]
      i == Target(t)
      absent == OnLive(t) /\ trees[i].data[c.key] = None
  IN /\ Ran(t, "__getitem__") =>
          /\ ret'[t] = GetWould(i, c.key)
          /\ trees' = trees /\ tenants' = tenants
          /\ absent => ret'[t] = PyOk(None)
          /\ (call[t].op = "get" /\ SameTarget(t)) => ret'[t] = ret[t]
     /\ Ran(t, "__setitem__") =>
          LET e == Tree_insert(trees[i], c.key, Unwrap(c.val))
          IN /\ trees' = [trees EXCEPT ![i].data = e.data]
             /\ ret'[t] = Unit(PyMapOpt(convert_to_pyresult(e.res)))
             /\ tenants' = tenants
     /\ Ran(t, "__delitem__") =>
          LET e == Tree_remove(trees[i], c.key)
          IN /\ trees' = [trees EXCEPT ![i].data = e.data]
             /\ ret'[t] = Unit(PyMapOpt(convert_to_pyresult(e.res)))
             /\ tenants' = tenants
             /\ absent => (ret'[t] = PyOk("unit") /\ trees' = trees)
     /\ (Ran(t, "insert") /\ OnLive(t) /\ call[t].op = "__setitem__" /\ SameTarget(t)
           /\ call[t].val = c.val /\ ret[t].tag = "PyOk") =>
          (ret'[t] = PyOk(c.val) /\ trees' = trees)
     /\ (Ran(t, "remove") /\ OnLive(t) /\ call[t].op = "__delitem__" /\ SameTarget(t)
           /\ ret[t].tag = "PyOk") =>
          (ret'[t] = PyOk(None) /\ trees' = trees)

\* C20: t[k] = v and del t[k] change the tree exactly as insert(k, v) and
\* remove(k) do and return nothing where those return the previous value,
\* so an insert(k, v) or remove(k) that follows finds its work done; t[k]
\* returns what get(k) returns; on an absent key t[k] returns absent and
\* del t[k] returns normally and changes nothing.
C20_MappingEquivalent == [][\A t \in Threads : MappingStep(t)]_vars

\* del t[k] has returned normally on the SledTree for a key it does not
\* hold, while it holds another key.
C20_Witness ==
  /\ call[Main].op = "__delitem__"
  /\ call[Main].self = 1
  /\ LiveHandle(1)
  /\ ret[Main] = PyOk("unit")
  /\ Present(trees[handles[1]]) # {}
  /\ Present(trees[handles[1]]) # Keys

====
